---- MODULE Spec2Model ----
(***************************************************************************)
(* Model of src/src/hatch/serializers.py: the serializers of the hatch web *)
(* application.  Python values are tagged records; every operation yields  *)
(* an outcome [ret, raised, calls]: the value returned, the exception that *)
(* left the operation ("none" when it returned) and the calls it made on   *)
(* its collaborators, in order.                                            *)
(***************************************************************************)
EXTENDS Integers, Sequences, FiniteSets, TLC

VARIABLES
    pc,            \* where the request stands: "idle", "constructed", "accessed",
                   \* "reaccessed", "called"
    cls,           \* the serializer class of the instance under use
    object,        \* self.object
    many,          \* self.many: "True", "False" or "None"
    _data,         \* self._data
    sm_not_found,  \* User.sm_not_found, per user
    author,        \* Vision.author / Reply.vision.author, per vision
    supporters,    \* Vision.supporters, per vision
    repliers,      \* the authors of Vision.replies, per vision
    raising,       \* the (accessor, user) calls the Twitter service answers by raising
    trace,         \* the calls made since the instance was constructed
    returned,      \* outcome of the last operation: [ret, raised]
    call,          \* the operation invoked last, with its arguments
    attrs,         \* attribute values of the generic model instances
    self_source,   \* self.source of a serializer declared as a nested field
    data,          \* from_native: the data dict, as the call leaves it
    _errors        \* self._errors (Unset when the attribute is missing)

vars == <<pc, cls, object, many, _data, sm_not_found, author, supporters,
          repliers, raising, trace, returned, call, attrs, self_source,
          data, _errors>>

----------------------------------------------------------------------------
(* Bounds *)

MaxLen == 2         \* longest collection handed to a serializer
MaxSourceLen == 3   \* longest dotted source, in tokens (names and "." separators)

Users == {"u1", "u2"}
Visions == {"v1"}
Nodes == {"n1", "n2"}
Names == {"a", "b"}
Accessors == {"get_avatar_url", "get_full_name", "get_bio"}

----------------------------------------------------------------------------
(* Python values and outcomes *)

None == [type |-> "None"]
SMValue(acc, u) == [type |-> "str", acc |-> acc, user |-> u]
List(items) == [type |-> "list", items |-> items]
Manager(items) == [type |-> "Manager", items |-> items]
UserObj(u) == [type |-> "User", id |-> u]
VisionObj(v) == [type |-> "Vision", id |-> v]
ReplyObj(v, u) == [type |-> "Reply", vision |-> v, author |-> u]
NodeObj(n) == [type |-> "Node", id |-> n]
PyStr(tokens) == [type |-> "str", tokens |-> tokens]

Ev(op, ids) == [op |-> op, ids |-> ids]

Return(v, calls) == [ret |-> v, raised |-> "none", calls |-> calls]
Raise(exc, calls) == [ret |-> None, raised |-> exc, calls |-> calls]

SeqsUpTo(S, n) == UNION {[1..k -> S] : k \in 0..n}

RECURSIVE Flatten(_)
Flatten(ss) == IF ss = <<>> THEN <<>> ELSE Head(ss) \o Flatten(Tail(ss))

RECURSIVE SetToSeq(_)
SetToSeq(S) ==
    IF S = {} THEN <<>>
    ELSE LET x == CHOOSE y \in S : TRUE IN <<x>> \o SetToSeq(S \ {x})

\* Index of the first outcome that raised; 0 when every one returned.
FirstRaised(outs) ==
    IF \E i \in 1..Len(outs) : outs[i].raised # "none"
    THEN CHOOSE i \in 1..Len(outs) :
            /\ outs[i].raised # "none"
            /\ \A j \in 1..(i - 1) : outs[j].raised = "none"
    ELSE 0

\* Outcomes evaluated one after another; the first exception ends the run.
Ran(outs) == IF FirstRaised(outs) = 0 THEN outs ELSE SubSeq(outs, 1, FirstRaised(outs))
CallsOf(outs) == Flatten([i \in 1..Len(Ran(outs)) |-> outs[i].calls])
RaisedOf(outs) == IF FirstRaised(outs) = 0 THEN "none" ELSE outs[FirstRaised(outs)].raised
RetsOf(outs) == [i \in 1..Len(outs) |-> outs[i].ret]

Ids(items) == [i \in 1..Len(items) |-> items[i].id]

----------------------------------------------------------------------------
(* The Twitter service (hatch.services) and the serializer context *)

service(acc, obj) ==
    IF <<acc, obj.id>> \in raising
    THEN Raise("SocialMediaException", <<Ev(acc, <<obj.id>>)>>)
    ELSE Return(SMValue(acc, obj.id), <<Ev(acc, <<obj.id>>)>>)

service_get_users_info(many_obj) ==
    Return(None, <<Ev("get_users_info", Ids(many_obj))>>)

get_twitter_service == Return(None, <<Ev("context.twitter_service", <<>>)>>)
get_requesting_user == Return(None, <<Ev("context.requesting_user", <<>>)>>)

\* obj.sm_not_found: only User instances carry the attribute.
has_sm_not_found(obj) == obj.type = "User"

----------------------------------------------------------------------------
(* BaseTwitterInfoSerializer: the per-user accessors *)

get_avatar_url(obj) ==
    IF ~has_sm_not_found(obj) THEN Raise("AttributeError", <<>>)
    ELSE IF sm_not_found[obj.id] THEN Return(None, <<>>)
    ELSE LET ctx == CallsOf(<<get_twitter_service, get_requesting_user>>)
             r == service("get_avatar_url", obj)
         IN  IF r.raised = "SocialMediaException"
             THEN Return(None, ctx \o r.calls)
             ELSE [ret |-> r.ret, raised |-> r.raised, calls |-> ctx \o r.calls]

\* get_full_name asking the service without looking at sm_not_found first.
get_full_name_unchecked(obj) ==
    IF ~has_sm_not_found(obj) THEN Raise("AttributeError", <<>>)
    ELSE LET ctx == CallsOf(<<get_twitter_service, get_requesting_user>>)
             r == service("get_full_name", obj)
         IN  IF r.raised = "SocialMediaException"
             THEN Return(None, ctx \o r.calls)
             ELSE [ret |-> r.ret, raised |-> r.raised, calls |-> ctx \o r.calls]

get_full_name(obj) ==
    IF ~has_sm_not_found(obj) THEN Raise("AttributeError", <<>>)
    ELSE IF sm_not_found[obj.id] THEN Return(None, <<>>)
    ELSE LET ctx == CallsOf(<<get_twitter_service, get_requesting_user>>)
             r == service("get_full_name", obj)
         IN  IF r.raised = "SocialMediaException"
             THEN Return(None, ctx \o r.calls)
             ELSE [ret |-> r.ret, raised |-> r.raised, calls |-> ctx \o r.calls]

\* get_bio without the except clause: the service's exception leaves the accessor.
get_bio_unguarded(obj) ==
    IF ~has_sm_not_found(obj) THEN Raise("AttributeError", <<>>)
    ELSE IF sm_not_found[obj.id] THEN Return(None, <<>>)
    ELSE LET ctx == CallsOf(<<get_twitter_service, get_requesting_user>>)
             r == service("get_bio", obj)
         IN  [ret |-> r.ret, raised |-> r.raised, calls |-> ctx \o r.calls]

get_bio(obj) ==
    IF ~has_sm_not_found(obj) THEN Raise("AttributeError", <<>>)
    ELSE IF sm_not_found[obj.id] THEN Return(None, <<>>)
    ELSE LET ctx == CallsOf(<<get_twitter_service, get_requesting_user>>)
             r == service("get_bio", obj)
         IN  IF r.raised = "SocialMediaException"
             THEN Return(None, ctx \o r.calls)
             ELSE [ret |-> r.ret, raised |-> r.raised, calls |-> ctx \o r.calls]

----------------------------------------------------------------------------
(* The ORM: relations of the models the serializers traverse *)

IdOf(obj) == IF "id" \in DOMAIN obj THEN <<obj.id>> ELSE <<>>
With(calls, out) == [out EXCEPT !.calls = calls \o @]
UserObjs(ids) == [i \in 1..Len(ids) |-> UserObj(ids[i])]
VisionObjs(ids) == [i \in 1..Len(ids) |-> VisionObj(ids[i])]
NodeObjs(ids) == [i \in 1..Len(ids) |-> NodeObj(ids[i])]

vision_supporters(v) == UserObjs(SetToSeq(supporters[v]))
vision_replies(v) ==
    LET us == SetToSeq(repliers[v]) IN [i \in 1..Len(us) |-> ReplyObj(v, us[i])]
user_supported(u) == VisionObjs(SetToSeq({v \in Visions : u \in supporters[v]}))
user_visions(u) == VisionObjs(SetToSeq({v \in Visions : author[v] = u}))
user_replies(u) ==
    LET vs == SetToSeq({v \in Visions : u \in repliers[v]})
    IN  [i \in 1..Len(vs) |-> ReplyObj(vs[i], u)]

\* rest_framework get_component(obj, attr_name): getattr, calling simple callables.
get_component(obj, name) ==
    LET ev == <<Ev("get_component", IdOf(obj) \o <<name>>)>>
    IN  CASE obj.type = "Node" /\ name \in Names ->
               LET a == attrs[obj.id][name]
               IN  IF a = "DoesNotExist" THEN Raise("ObjectDoesNotExist", ev)
                   ELSE IF a = "None" THEN Return(None, ev)
                   ELSE IF a = "Manager" THEN Return(Manager(NodeObjs(SetToSeq(Nodes))), ev)
                   ELSE IF a = "list" THEN Return(List(NodeObjs(SetToSeq(Nodes))), ev)
                   ELSE Return(NodeObj(a), ev)
          [] obj.type = "Vision" /\ name = "author" -> Return(UserObj(author[obj.id]), ev)
          [] obj.type = "Vision" /\ name = "supporters" ->
               Return(Manager(vision_supporters(obj.id)), ev)
          [] obj.type = "Vision" /\ name = "replies" ->
               Return(Manager(vision_replies(obj.id)), ev)
          [] obj.type = "Reply" /\ name = "author" -> Return(UserObj(obj.author), ev)
          [] obj.type = "Reply" /\ name = "vision" -> Return(VisionObj(obj.vision), ev)
          [] obj.type = "User" /\ name = "supported" ->
               Return(Manager(user_supported(obj.id)), ev)
          [] obj.type = "User" /\ name = "replies" -> Return(Manager(user_replies(obj.id)), ev)
          [] obj.type = "User" /\ name = "visions" -> Return(Manager(user_visions(obj.id)), ev)
          [] OTHER -> Raise("AttributeError", ev)

\* str.split('.') on a string given as its tokens: names and "." separators.
RECURSIVE Split(_)
Split(tokens) ==
    IF tokens = <<>> THEN <<"">>
    ELSE IF Head(tokens) = "." THEN <<"">> \o Split(Tail(tokens))
    ELSE <<Head(tokens)>> \o Tail(Split(Tail(tokens)))

\* hasattr(value, '__iter__')
iterable(value) == value.type = "list"

\* is_simple_callable(getattr(value, 'all', None))
has_all(value) == value.type = "Manager"

----------------------------------------------------------------------------
(* ManyToNativeMixin and the serializer classes.  self.to_native is resolved by  *)
(* the class of the instance: many_to_native takes the outcomes of to_native on  *)
(* the items, which the class supplies.                                          *)

Items(value) == IF iterable(value) THEN value.items ELSE <<>>
ItemIds(value) == Flatten([i \in 1..Len(Items(value)) |-> IdOf(value.items[i])])

\* The dict a serializer builds from the outcomes of its fields, in field order.
Serialized(obj, outs) ==
    LET calls == <<Ev("to_native", IdOf(obj))>> \o CallsOf(outs)
    IN  IF RaisedOf(outs) # "none" THEN Raise(RaisedOf(outs), calls)
        ELSE Return([type |-> "dict", of |-> IdOf(obj), fields |-> RetsOf(outs)], calls)

\* [self.to_native(item) for item in value]
ManyToNativeMixin_many_to_native(value, outs) ==
    IF ~iterable(value) THEN Raise("TypeError", <<>>)
    ELSE IF RaisedOf(outs) # "none" THEN Raise(RaisedOf(outs), CallsOf(outs))
    ELSE Return(List(RetsOf(outs)), CallsOf(outs))

\* any(not user.sm_not_found for user in items)
RECURSIVE AnyFound(_)
AnyFound(items) ==
    IF items = <<>> THEN "False"
    ELSE IF ~has_sm_not_found(Head(items)) THEN "AttributeError"
    ELSE IF ~sm_not_found[Head(items).id] THEN "True"
    ELSE AnyFound(Tail(items))

\* many_to_native hitting the service whether or not any user is found.
BaseTwitterInfoSerializer_many_to_native_always(many_obj, outs) ==
    IF ~iterable(many_obj) THEN Raise("TypeError", <<>>)
    ELSE IF AnyFound(many_obj.items) = "AttributeError" THEN Raise("AttributeError", <<>>)
    ELSE LET hit == CallsOf(<<get_twitter_service, get_requesting_user,
                              service_get_users_info(many_obj.items)>>)
         IN  With(hit, ManyToNativeMixin_many_to_native(many_obj, outs))

BaseTwitterInfoSerializer_many_to_native(many_obj, outs) ==
    IF ~iterable(many_obj) THEN Raise("TypeError", <<>>)
    ELSE IF AnyFound(many_obj.items) = "AttributeError" THEN Raise("AttributeError", <<>>)
    ELSE IF AnyFound(many_obj.items) = "True"
    THEN LET hit == CallsOf(<<get_twitter_service, get_requesting_user,
                              service_get_users_info(many_obj.items)>>)
         IN  With(hit, ManyToNativeMixin_many_to_native(many_obj, outs))
    ELSE ManyToNativeMixin_many_to_native(many_obj, outs)

UserSerializer_many_to_native(obj, outs) ==
    BaseTwitterInfoSerializer_many_to_native(obj, outs)

\* [v.author for v in many_obj] + [r.author for r in chain(*(v.replies.all() ...))]
many_authors(visions) ==
    [i \in 1..Len(visions) |-> UserObj(author[visions[i].id])]
    \o Flatten([i \in 1..Len(visions) |->
                  LET rs == vision_replies(visions[i].id)
                  IN  [j \in 1..Len(rs) |-> UserObj(rs[j].author)]])

VisionSerializer_many_to_native(many_obj, outs) ==
    IF ~iterable(many_obj) THEN Raise("TypeError", <<>>)
    ELSE IF \E i \in 1..Len(many_obj.items) : many_obj.items[i].type # "Vision"
    THEN Raise("AttributeError", <<>>)
    ELSE IF AnyFound(many_authors(many_obj.items)) = "True"
    THEN LET hit == CallsOf(<<get_twitter_service, get_requesting_user,
                              service_get_users_info(many_authors(many_obj.items))>>)
         IN  With(hit, ManyToNativeMixin_many_to_native(many_obj, outs))
    ELSE ManyToNativeMixin_many_to_native(many_obj, outs)

\* class MinimalTwitterUserSerializer: avatar_url, full_name, bio
MinimalTwitterUserSerializer_to_native(obj) ==
    Serialized(obj, <<get_avatar_url(obj), get_full_name(obj), get_bio(obj)>>)

\* A ManyToNativeMixin serializer with no field of its own modelled.
ModelSerializer_to_native(obj) == Serialized(obj, <<>>)

\* to_native and many_to_native of a serializer declared as a nested field.
nested_to_native(c, obj) ==
    IF c = "MinimalTwitterUserSerializer" THEN MinimalTwitterUserSerializer_to_native(obj)
    ELSE ModelSerializer_to_native(obj)

nested_many_to_native_over(c, value, outs) ==
    With(<<Ev("many_to_native", ItemIds(value))>>,
         IF c = "MinimalTwitterUserSerializer"
         THEN BaseTwitterInfoSerializer_many_to_native(value, outs)
         ELSE ManyToNativeMixin_many_to_native(value, outs))

nested_many_to_native(c, value) ==
    nested_many_to_native_over(c, value,
        [i \in 1..Len(Items(value)) |-> nested_to_native(c, value.items[i])])

RECURSIVE Walk(_, _), Walk_no_break(_, _)

\* The walk without its break: it goes on past a component that is None.
Walk_no_break(value, components) ==
    IF components = <<>> THEN Return(value, <<>>)
    ELSE LET r == get_component(value, Head(components))
         IN  IF r.raised # "none" THEN r
             ELSE With(r.calls, Walk_no_break(r.ret, Tail(components)))

\* for component in source.split('.'): value = get_component(value, component) ...
Walk(value, components) ==
    IF components = <<>> THEN Return(value, <<>>)
    ELSE LET r == get_component(value, Head(components))
         IN  IF r.raised # "none" \/ r.ret = None THEN r
             ELSE With(r.calls, Walk(r.ret, Tail(components)))

\* field_to_native once the walk has ended with outcome w (lines 37-53).
field_to_native_after(c, many_, w) ==
    IF w.raised = "ObjectDoesNotExist" THEN Return(None, w.calls)
    ELSE IF w.raised # "none" THEN w
    ELSE IF w.ret = None THEN Return(None, w.calls)
    ELSE IF ~has_all(w.ret) /\ many_ = "None" /\ iterable(w.ret) THEN Raise("NameError", w.calls)
    ELSE IF has_all(w.ret) \/ many_ = "True"
    THEN With(w.calls, nested_many_to_native(c, IF has_all(w.ret) THEN List(w.ret.items)
                                                 ELSE w.ret))
    ELSE With(w.calls, nested_to_native(c, w.ret))

field_to_native(c, source, many_, obj, field_name) ==
    IF source = PyStr(<<"*">>) THEN nested_to_native(c, obj)
    ELSE field_to_native_after(c, many_,
            Walk(obj, Split(IF source = None \/ source = PyStr(<<>>)
                            THEN field_name.tokens ELSE source.tokens)))

\* author_details = MinimalTwitterUserSerializer(source='author', read_only=True)
author_details(obj) ==
    field_to_native("MinimalTwitterUserSerializer", PyStr(<<"author">>), "None", obj,
                    PyStr(<<"author_details">>))

MinimalVisionSerializer_to_native(obj) == Serialized(obj, <<author_details(obj)>>)

ReplySerializer_to_native(obj) == Serialized(obj, <<author_details(obj)>>)

\* vision = MinimalVisionSerializer(source='vision', read_only=True)
vision_field(r) ==
    IF r.raised # "none" THEN r ELSE With(r.calls, MinimalVisionSerializer_to_native(r.ret))

MinimalReplySerializer_to_native(obj) ==
    Serialized(obj, <<vision_field(get_component(obj, "vision"))>>)

\* to_native of the plain ModelSerializers declared as nested fields with many=True.
item_to_native(c, item) ==
    CASE c = "MinimalVisionSerializer" -> MinimalVisionSerializer_to_native(item)
      [] c = "MinimalReplySerializer" -> MinimalReplySerializer_to_native(item)
      [] c = "ReplySerializer" -> ReplySerializer_to_native(item)

\* The list a nested field answers: the related objects r, serialized into outs.
related_list(r, outs) ==
    IF r.raised # "none" THEN r
    ELSE IF RaisedOf(outs) # "none" THEN Raise(RaisedOf(outs), r.calls \o CallsOf(outs))
    ELSE Return(List(RetsOf(outs)), r.calls \o CallsOf(outs))

related_items(r) == IF r.raised = "none" THEN r.ret.items ELSE <<>>

items_to_native(c, items) == [i \in 1..Len(items) |-> item_to_native(c, items[i])]

\* rest_framework's own nested field with many=True: obj.<name>.all(), item by item.
drf_field_to_native(c, name, obj) ==
    related_list(get_component(obj, name),
                 items_to_native(c, related_items(get_component(obj, name))))

\* class UserSerializer: ..., 'avatar_url', 'full_name', 'bio', ..., 'supported',
\* 'replies', 'visions'
UserSerializer_to_native(obj) ==
    Serialized(obj,
       <<get_avatar_url(obj), get_full_name(obj), get_bio(obj),
         drf_field_to_native("MinimalVisionSerializer", "supported", obj),
         drf_field_to_native("MinimalReplySerializer", "replies", obj),
         drf_field_to_native("MinimalVisionSerializer", "visions", obj)>>)

\* class VisionSerializer: author_details, replies, supporters
VisionSerializer_to_native(obj) ==
    Serialized(obj,
       <<author_details(obj),
         drf_field_to_native("ReplySerializer", "replies", obj),
         field_to_native("MinimalTwitterUserSerializer", None, "True", obj,
                         PyStr(<<"supporters">>))>>)

to_native(c, obj) ==
    CASE c = "MinimalTwitterUserSerializer" -> MinimalTwitterUserSerializer_to_native(obj)
      [] c = "UserSerializer" -> UserSerializer_to_native(obj)
      [] c = "VisionSerializer" -> VisionSerializer_to_native(obj)
      [] OTHER -> ModelSerializer_to_native(obj)

many_to_native_over(c, value, outs) ==
    With(<<Ev("many_to_native", ItemIds(value))>>,
         CASE c = "MinimalTwitterUserSerializer" ->
                BaseTwitterInfoSerializer_many_to_native(value, outs)
           [] c = "UserSerializer" -> UserSerializer_many_to_native(value, outs)
           [] c = "VisionSerializer" -> VisionSerializer_many_to_native(value, outs)
           [] OTHER -> ManyToNativeMixin_many_to_native(value, outs))

many_to_native(c, value) ==
    many_to_native_over(c, value,
        [i \in 1..Len(Items(value)) |-> to_native(c, value.items[i])])

\* The data property without its check of self._data: every access serializes.
ManyToNativeMixin_data_uncached ==
    IF many = "None" /\ iterable(object) THEN Raise("NameError", <<>>)
    ELSE IF many = "True" THEN many_to_native(cls, object)
    ELSE to_native(cls, object)

\* The data property of ManyToNativeMixin: the outcome of one access.
ManyToNativeMixin_data ==
    IF _data # None THEN Return(_data, <<>>)
    ELSE IF many = "None" /\ iterable(object) THEN Raise("NameError", <<>>)
    ELSE IF many = "True" THEN many_to_native(cls, object)
    ELSE to_native(cls, object)

----------------------------------------------------------------------------
(* VisionSerializer.from_native *)

Dicts(keys, values) == UNION {[ks -> values] : ks \in SUBSET keys}
NoDict == [k \in {} |-> "none"]

Unset == [state |-> "unset"]
ErrNone == [state |-> "None"]
ErrDict(d) == [state |-> "dict", d |-> d]

ImageFile(name, valid, messages) ==
    [type |-> "file", name |-> name, valid |-> valid, messages |-> messages]

\* rest_framework ImageField(required=False).from_native
ImageField_from_native(media_file) ==
    IF media_file = None \/ media_file.name = "" THEN Return(None, <<>>)
    ELSE IF ~media_file.valid THEN [Raise("ValidationError", <<>>) EXCEPT !.ret = media_file.messages]
    ELSE Return(media_file, <<>>)

\* files.get('media', None)
files_get_media(fs) == IF "media" \in DOMAIN fs THEN fs["media"] ELSE None

\* Vision.upload_photo(media): stores the photo and answers its URL.
upload_photo(media) == Return("uploaded_url", <<Ev("upload_photo", <<media.name>>)>>)

\* ModelSerializer.from_native(data, files)
ModelSerializer_from_native(d, fs) ==
    Return([type |-> "Vision", id |-> "restored"],
           <<[op |-> "ModelSerializer.from_native", ids |-> <<>>, data |-> d, files |-> fs]>>)

\* from_native starting the error map afresh on a validation failure.
from_native_fresh_errors(d, fs) ==
    LET v == ImageField_from_native(files_get_media(fs))
    IN  IF v.raised = "ValidationError"
        THEN [out |-> Return(None, <<>>), data |-> d,
              errors |-> ErrDict([k \in {"media"} |-> v.ret])]
        ELSE LET media == v.ret
                 attach == media # None /\ "media_url" \notin DOMAIN d
                 up == IF attach THEN upload_photo(media) ELSE Return(None, <<>>)
                 d2 == IF attach
                       THEN [k \in DOMAIN d \cup {"media_url"} |->
                               IF k = "media_url" THEN up.ret ELSE d[k]]
                       ELSE d
             IN  [out |-> With(up.calls, ModelSerializer_from_native(d2, NoDict)),
                  data |-> d2, errors |-> _errors]

\* from_native uploading whenever there is media, over a 'media_url' already given.
from_native_always_uploads(d, fs) ==
    LET v == ImageField_from_native(files_get_media(fs))
    IN  IF v.raised = "ValidationError"
        THEN LET base == IF _errors = Unset \/ _errors = ErrNone THEN NoDict ELSE _errors.d
                 errs == [k \in DOMAIN base \cup {"media"} |->
                            IF k = "media" THEN v.ret ELSE base[k]]
             IN  [out |-> Return(None, <<>>), data |-> d, errors |-> ErrDict(errs)]
        ELSE LET media == v.ret
                 attach == media # None
                 up == IF attach THEN upload_photo(media) ELSE Return(None, <<>>)
                 d2 == IF attach
                       THEN [k \in DOMAIN d \cup {"media_url"} |->
                               IF k = "media_url" THEN up.ret ELSE d[k]]
                       ELSE d
             IN  [out |-> With(up.calls, ModelSerializer_from_native(d2, NoDict)),
                  data |-> d2, errors |-> _errors]

\* The outcome of from_native, with the data dict and self._errors it leaves.
from_native(d, fs) ==
    LET v == ImageField_from_native(files_get_media(fs))
    IN  IF v.raised = "ValidationError"
        THEN LET base == IF _errors = Unset \/ _errors = ErrNone THEN NoDict ELSE _errors.d
                 errs == [k \in DOMAIN base \cup {"media"} |->
                            IF k = "media" THEN v.ret ELSE base[k]]
             IN  [out |-> Return(None, <<>>), data |-> d, errors |-> ErrDict(errs)]
        ELSE LET media == v.ret
                 attach == media # None /\ "media_url" \notin DOMAIN d
                 up == IF attach THEN upload_photo(media) ELSE Return(None, <<>>)
                 d2 == IF attach
                       THEN [k \in DOMAIN d \cup {"media_url"} |->
                               IF k = "media_url" THEN up.ret ELSE d[k]]
                       ELSE d
             IN  [out |-> With(up.calls, ModelSerializer_from_native(d2, NoDict)),
                  data |-> d2, errors |-> _errors]

----------------------------------------------------------------------------
(* The requests: what a view does with a serializer *)

NoCall == [op |-> "none"]
NoOutcome == [ret |-> None, raised |-> "none"]
Outcome(r) == [ret |-> r.ret, raised |-> r.raised]

NoAuthor == [v \in Visions |-> CHOOSE u \in Users : TRUE]
NoUsers == [v \in Visions |-> {}]
NoAttrs == [n \in Nodes |-> [a \in Names |-> "None"]]

\* The service fails per accessor, or per (accessor, user) call.
AccessorFailures == {A \X Users : A \in SUBSET Accessors}
CallFailures == SUBSET (Accessors \X Users)
ManyFlags == {"True", "False", "None"}

UserObjects ==
    {UserObj(u) : u \in Users} \cup {List(UserObjs(us)) : us \in SeqsUpTo(Users, MaxLen)}
VisionObjects ==
    {VisionObj(v) : v \in Visions}
    \cup {List(VisionObjs(vs)) : vs \in SeqsUpTo(Visions, MaxLen)}

\* Strings a self_source can be: "*", or names joined by "." (no two names adjacent).
Sources ==
    {None, PyStr(<<"*">>)} \cup
    {PyStr(t) : t \in {t \in SeqsUpTo(Names \cup {"."}, MaxSourceLen) :
                          \A i \in 1..(Len(t) - 1) : t[i] = "." \/ t[i + 1] = "."}}
AttrValues == Nodes \cup {"None", "DoesNotExist", "Manager", "list"}

Init ==
    /\ pc = "idle"
    /\ cls = "none"
    /\ object = None
    /\ many = "None"
    /\ _data = None
    /\ sm_not_found = [u \in Users |-> FALSE]
    /\ author = NoAuthor
    /\ supporters = NoUsers
    /\ repliers = NoUsers
    /\ raising = {}
    /\ trace = <<>>
    /\ returned = NoOutcome
    /\ call = NoCall
    /\ attrs = NoAttrs
    /\ self_source = None
    /\ data = NoDict
    /\ _errors = Unset

\* Serializer(instance, many=..., context=...): a fresh instance, nothing serialized yet.
Construct(c, obj, m) ==
    /\ pc = "idle"
    /\ pc' = "constructed"
    /\ cls' = c
    /\ object' = obj
    /\ many' = m
    /\ _data' = None
    /\ trace' = <<>>
    /\ returned' = NoOutcome
    /\ call' = NoCall

\* A user serializer over the users of the database and the state of the service.
ConstructUserSerializer ==
    /\ \E c \in {"MinimalTwitterUserSerializer", "UserSerializer"},
          obj \in UserObjects, m \in ManyFlags :
          /\ Construct(c, obj, m)
          /\ IF c = "UserSerializer"
             THEN /\ author' \in [Visions -> Users]
                  /\ supporters' \in [Visions -> SUBSET Users]
                  /\ repliers' \in [Visions -> SUBSET Users]
             ELSE /\ author' = NoAuthor
                  /\ supporters' = NoUsers
                  /\ repliers' = NoUsers
    /\ sm_not_found' \in [Users -> BOOLEAN]
    /\ raising' \in AccessorFailures
    /\ UNCHANGED <<attrs, self_source, data, _errors>>

ConstructVisionSerializer ==
    /\ \E obj \in VisionObjects, m \in ManyFlags : Construct("VisionSerializer", obj, m)
    /\ author' \in [Visions -> Users]
    /\ supporters' \in [Visions -> SUBSET Users]
    /\ repliers' \in [Visions -> SUBSET Users]
    /\ sm_not_found' \in [Users -> BOOLEAN]
    /\ raising' \in AccessorFailures
    /\ UNCHANGED <<attrs, self_source, data, _errors>>

\* serializer.data, read a first and then a second time
Accessed(r) ==
    /\ _data' = IF _data = None /\ r.raised = "none" THEN r.ret ELSE _data
    /\ trace' = trace \o r.calls
    /\ returned' = Outcome(r)

AccessData ==
    /\ pc \in {"constructed", "accessed"}
    /\ Accessed(ManyToNativeMixin_data)
    /\ pc' = IF pc = "constructed" THEN "accessed" ELSE "reaccessed"
    /\ call' = [op |-> "data"]
    /\ UNCHANGED <<cls, object, many, sm_not_found, author, supporters, repliers,
                   raising, attrs, self_source, data, _errors>>

\* A single user handed to one accessor of a Twitter-info serializer.
ConstructForAccessor ==
    /\ \E u \in Users : Construct("MinimalTwitterUserSerializer", UserObj(u), "False")
    /\ sm_not_found' \in [Users -> BOOLEAN]
    /\ raising' \in CallFailures
    /\ UNCHANGED <<author, supporters, repliers, attrs, self_source, data, _errors>>

Accessor(acc, obj) ==
    CASE acc = "get_avatar_url" -> get_avatar_url(obj)
      [] acc = "get_full_name" -> get_full_name(obj)
      [] acc = "get_bio" -> get_bio(obj)

Called(r) ==
    /\ trace' = r.calls
    /\ returned' = Outcome(r)

CallAccessor ==
    /\ pc \in {"constructed", "called"}
    /\ \E acc \in Accessors :
          /\ Called(Accessor(acc, object))
          /\ call' = [op |-> acc, obj |-> object]
    /\ pc' = "called"
    /\ UNCHANGED <<cls, object, many, _data, sm_not_found, author, supporters, repliers,
                   raising, attrs, self_source, data, _errors>>

\* field = Serializer(self_source=..., many=...) declared on a parent serializer.
DeclareField ==
    /\ \E m \in ManyFlags : Construct("ManyToNativeMixin", NodeObj(CHOOSE n \in Nodes : TRUE), m)
    /\ self_source' \in Sources
    /\ attrs' \in [Nodes -> [Names -> AttrValues]]
    /\ UNCHANGED <<sm_not_found, author, supporters, repliers, raising, data, _errors>>

\* The parent serializer asks the field for its part of the parent object.
FieldToNative ==
    /\ pc = "constructed"
    /\ \E name \in Names :
          /\ Called(field_to_native(cls, self_source, many, object, PyStr(<<name>>)))
          /\ call' = [op |-> "field_to_native", field_name |-> name]
    /\ pc' = "called"
    /\ UNCHANGED <<cls, object, many, _data, sm_not_found, author, supporters, repliers,
                   raising, attrs, self_source, data, _errors>>

\* A VisionSerializer about to deserialize: _errors as earlier validation left it.
ErrorStates ==
    {Unset, ErrNone} \cup {ErrDict(d) : d \in Dicts({"text", "media"}, {<<"old">>})}
MediaFiles ==
    {ImageFile("", TRUE, <<>>), ImageFile("photo", TRUE, <<>>)}
    \cup {ImageFile("photo", FALSE, ms) : ms \in {<<"invalid">>, <<"invalid", "corrupt">>}}

ConstructForInput ==
    /\ Construct("VisionSerializer", None, "False")
    /\ _errors' \in ErrorStates
    /\ UNCHANGED <<sm_not_found, author, supporters, repliers, raising, attrs, self_source, data>>

Deserialized(r) ==
    /\ Called(r.out)
    /\ data' = r.data
    /\ _errors' = r.errors

FromNative ==
    /\ pc = "constructed"
    /\ \E d \in Dicts({"media_url", "text"}, {"given"}),
          fs \in Dicts({"media"}, MediaFiles \cup {None}) :
          /\ Deserialized(from_native(d, fs))
          /\ call' = [op |-> "from_native", data |-> d, files |-> fs, errors |-> _errors]
    /\ pc' = "called"
    /\ UNCHANGED <<cls, object, many, _data, sm_not_found, author, supporters, repliers,
                   raising, attrs, self_source>>

\* The request ends and the instance is dropped.
Discard ==
    /\ pc # "idle"
    /\ pc' = "idle"
    /\ cls' = "none"
    /\ object' = None
    /\ many' = "None"
    /\ _data' = None
    /\ sm_not_found' = [u \in Users |-> FALSE]
    /\ author' = NoAuthor
    /\ supporters' = NoUsers
    /\ repliers' = NoUsers
    /\ raising' = {}
    /\ trace' = <<>>
    /\ returned' = NoOutcome
    /\ call' = NoCall
    /\ attrs' = NoAttrs
    /\ self_source' = None
    /\ data' = NoDict
    /\ _errors' = Unset

NextUsers == ConstructUserSerializer \/ AccessData \/ Discard
SpecUsers == Init /\ [][NextUsers]_vars

NextVisions == ConstructVisionSerializer \/ AccessData \/ Discard
SpecVisions == Init /\ [][NextVisions]_vars

NextAccessors == ConstructForAccessor \/ CallAccessor \/ Discard
SpecAccessors == Init /\ [][NextAccessors]_vars

NextField == DeclareField \/ FieldToNative \/ Discard
SpecField == Init /\ [][NextField]_vars

NextFromNative == ConstructForInput \/ FromNative \/ Discard
SpecFromNative == Init /\ [][NextFromNative]_vars

----------------------------------------------------------------------------
(* Properties *)

At(ops) == {i \in 1..Len(trace) : trace[i].op \in ops}
ServiceOps == Accessors \cup {"get_users_info"}
ContextOps == {"context.twitter_service", "context.requesting_user"}
SerializeOps == {"to_native", "many_to_native"}
Range(f) == {f[i] : i \in DOMAIN f}

\* C1: an accessor never lets SocialMediaException out: it returns None when the
\* service call raises, and the service's own value when the user is found and
\* the call succeeds.
C1_AccessorsSwallowServiceErrors ==
    pc = "called" =>
        LET u == call.obj.id
            failed == \E i \in At({call.op}) : <<call.op, u>> \in raising
        IN  /\ returned.raised = "none"
            /\ failed => returned.ret = None
            /\ (~sm_not_found[u] /\ ~failed) =>
                   /\ At({call.op}) # {}
                   /\ returned.ret = SMValue(call.op, u)

C1_Witness ==
    /\ pc = "called"
    /\ call.op = "get_bio"
    /\ ~sm_not_found[call.obj.id]
    /\ <<"get_bio", call.obj.id>> \in raising
    /\ At({"get_bio"}) # {}
    /\ returned = [ret |-> None, raised |-> "none"]

\* C2: many_to_native of a Twitter-info serializer calls get_users_info once, with
\* the whole collection, when some user is found, and never otherwise; the call
\* precedes the serialization of the first item.
C2_OneBatchedLookupFirst ==
    (pc = "accessed" /\ many = "True" /\ iterable(object)) =>
        LET found == \E i \in 1..Len(object.items) : ~sm_not_found[object.items[i].id]
            hits == At({"get_users_info"})
        IN  /\ Cardinality(hits) = IF found THEN 1 ELSE 0
            /\ \A h \in hits :
                  /\ trace[h].ids = Ids(object.items)
                  /\ \A i \in At({"to_native"} \cup Accessors) : h < i

C2_Witness ==
    /\ pc = "accessed"
    /\ cls = "UserSerializer"
    /\ many = "True"
    /\ iterable(object)
    /\ Len(object.items) = 2
    /\ sm_not_found[object.items[1].id]
    /\ ~sm_not_found[object.items[2].id]
    /\ Cardinality(At({"get_users_info"})) = 1
    /\ Cardinality(At(Accessors)) >= 3
    /\ \E v \in Visions : object.items[1].id \in supporters[v]

\* C3: every user whose info VisionSerializer asks the service for while it
\* serializes a collection was in the list handed to the get_users_info call made
\* at the start of many_to_native.
StartHit ==
    IF Len(trace) >= 4 /\ trace[4].op = "get_users_info" THEN Range(trace[4].ids) ELSE {}

C3_AllUsersInStartingLookup ==
    (pc = "accessed" /\ many = "True" /\ iterable(object)) =>
        \A i \in At(Accessors) : trace[i].ids[1] \in StartHit

SerializedUsers ==
    IF iterable(object) THEN Range(Ids(object.items))
    ELSE IF object.type = "User" THEN {object.id} ELSE {}

Components ==
    Split(IF self_source = None \/ self_source = PyStr(<<>>)
          THEN <<call.field_name>> ELSE self_source.tokens)

\* Where a walk over the attribute values ends: the number of components looked
\* up, and why it went no further.
RECURSIVE WalkEnds(_, _, _)
WalkEnds(n, components, k) ==
    IF components = <<>> THEN [why |-> "end", at |-> k]
    ELSE IF Head(components) \notin Names THEN [why |-> "error", at |-> k + 1]
    ELSE LET a == attrs[n][Head(components)]
         IN  IF a \in {"None", "DoesNotExist"} THEN [why |-> a, at |-> k + 1]
             ELSE IF a \in Nodes THEN WalkEnds(a, Tail(components), k + 1)
             ELSE IF Tail(components) = <<>> THEN [why |-> "end", at |-> k + 1]
             ELSE [why |-> "error", at |-> k + 2]

C7_NestedFieldWalk ==
    pc = "called" =>
        IF self_source = PyStr(<<"*">>)
        THEN /\ trace = <<Ev("to_native", <<object.id>>)>>
             /\ returned.raised = "none"
             /\ returned.ret.type = "dict"
        ELSE LET w == WalkEnds(object.id, Components, 0)
                 lookups == At({"get_component"})
             IN  /\ lookups = 1..w.at
                 /\ trace[1].ids[1] = object.id
                 /\ \A i \in lookups : trace[i].ids[Len(trace[i].ids)] = Components[i]
                 /\ w.why \in {"None", "DoesNotExist"} =>
                       /\ returned = [ret |-> None, raised |-> "none"]
                       /\ At(SerializeOps) = {}

C7_Witness ==
    /\ pc = "called"
    /\ self_source = PyStr(<<"a", ".", "b">>)
    /\ attrs[object.id]["a"] = "None"
    /\ attrs[object.id]["b"] \in Nodes
    /\ trace = <<Ev("get_component", <<object.id, "a">>)>>
    /\ returned = [ret |-> None, raised |-> "none"]

\* C4: when the uploaded media fails validation, from_native records the messages
\* under 'media', keeps every other recorded error, returns None, and neither
\* uploads the photo nor calls the parent nor touches the data.
MediaInvalid ==
    /\ "media" \in DOMAIN call.files
    /\ call.files["media"] # None
    /\ call.files["media"].name # ""
    /\ ~call.files["media"].valid

EarlierErrors == IF call.errors.state = "dict" THEN call.errors.d ELSE NoDict

C4_InvalidMediaIsRecorded ==
    (pc = "called" /\ MediaInvalid) =>
        /\ _errors.state = "dict"
        /\ DOMAIN _errors.d = DOMAIN EarlierErrors \cup {"media"}
        /\ _errors.d["media"] = call.files["media"].messages
        /\ \A k \in DOMAIN EarlierErrors \ {"media"} : _errors.d[k] = EarlierErrors[k]
        /\ returned = [ret |-> None, raised |-> "none"]
        /\ trace = <<>>
        /\ data = call.data

C4_Witness ==
    /\ pc = "called"
    /\ MediaInvalid
    /\ call.files["media"].messages = <<"invalid", "corrupt">>
    /\ DOMAIN EarlierErrors = {"text", "media"}
    /\ _errors = ErrDict([k \in {"text", "media"} |->
                            IF k = "media" THEN <<"invalid", "corrupt">> ELSE <<"old">>])
    /\ "media_url" \notin DOMAIN data

\* C5: from_native uploads the photo at most once, and only for a validated,
\* non-empty media file when the data carries no 'media_url'; a given 'media_url'
\* is kept; and unless validation fails the parent from_native is called exactly
\* once, last, with the data as extended and with no files.
C5_UploadOnceThenParent ==
    pc = "called" =>
        LET uploads == At({"upload_photo"})
            parents == At({"ModelSerializer.from_native"})
        IN  /\ Cardinality(uploads) <= 1
            /\ uploads # {} =>
                  /\ "media" \in DOMAIN call.files
                  /\ call.files["media"] # None
                  /\ call.files["media"].name # ""
                  /\ call.files["media"].valid
                  /\ "media_url" \notin DOMAIN call.data
            /\ \A k \in DOMAIN call.data : k \in DOMAIN data /\ data[k] = call.data[k]
            /\ DOMAIN data \subseteq DOMAIN call.data \cup {"media_url"}
            /\ ~MediaInvalid =>
                  /\ parents = {Len(trace)}
                  /\ trace[Len(trace)].data = data
                  /\ trace[Len(trace)].files = NoDict
                  /\ returned.raised = "none"

C5_Witness ==
    /\ pc = "called"
    /\ DOMAIN call.data = {"text"}
    /\ "media" \in DOMAIN call.files
    /\ call.files["media"] = ImageFile("photo", TRUE, <<>>)
    /\ Len(trace) = 2
    /\ trace[1] = Ev("upload_photo", <<"photo">>)
    /\ trace[2].op = "ModelSerializer.from_native"
    /\ trace[2].files = NoDict
    /\ trace[2].data = [k \in {"text", "media_url"} |->
                          IF k = "media_url" THEN "uploaded_url" ELSE "given"]

====
